---- MODULE Spec2Model ----
(***************************************************************************)
(* A state-machine model of gmeet.py: one run of main(), which builds the  *)
(* configuration, creates the browser session, logs in, joins the meeting  *)
(* (muting microphone and camera through ordered selector lists), records  *)
(* audio, transcribes it and finally closes the browser.                   *)
(*                                                                         *)
(* The browser, the audio device and the transcriber are the environment:  *)
(* every call on them ends in one of the outcomes the library can produce  *)
(* (a wait returns an element, times out or fails with another error; any  *)
(* other call returns or fails), chosen nondeterministically.              *)
(***************************************************************************)
EXTENDS Integers, Sequences, FiniteSets, TLC

VARIABLES
    pc,            \* control point of the run
    config,        \* the MeetConfig built by main ("none" fields before that)
    bot,           \* main's local `bot`: "none" or "created"
    exc,           \* the exception in flight: [kind, origin]
    log,           \* set of messages written to the logger
    shots,         \* sequence of _capture_screenshot calls: [label, saved]
    dumps,         \* number of page_source.html dumps written
    releaseCount,  \* number of driver.quit() invocations
    exitStatus,    \* process exit status (-1 while running)
    loginStep,     \* index in LoginSteps of the next login step (0 outside)
    idx,           \* index of the selector being tried in the current loop
    tried,         \* per selector list: number of selectors evaluated
    elapsed,       \* per selector list: seconds spent in waits that timed out
    errors,        \* per selector list: waits ended by a non-timeout error
    found,         \* per selector list: selector on which the loop broke
    started,       \* sequence of the stages main has invoked, in order
    fpc,           \* control point of a helper applied on its own
    headlessEnv,   \* the HEADLESS environment value given to the helper
    headlessCfg,   \* MeetConfig.headless computed from headlessEnv
    headlessOpt,   \* whether '--headless' was added to the Chrome options
    indicators,    \* per join indicator: what find_elements does for it
    vidx,          \* index of the join indicator being checked
    vresult        \* value returned by _verify_join_status ("none" before)

\* The state of one run of main().
runVars == <<pc, config, bot, exc, log, shots, dumps, releaseCount, exitStatus,
             loginStep, idx, tried, elapsed, errors, found, started>>

\* The state of the helpers checked on their own (main does not call
\* _verify_join_status, and reads HEADLESS once while building the config).
helperVars == <<fpc, headlessEnv, headlessCfg, headlessOpt, indicators, vidx,
                vresult>>

vars == <<runVars, helperVars>>

----------------------------------------------------------------------------
(* Static data of the program *)

mic_selectors ==
    << "div[role='button'][aria-label*='Turn off microphone']",
       "div[aria-label*='microphone'][role='button']",
       "div[data-is-muted='false'][aria-label*='microphone']",
       "button[aria-label*='Turn off microphone']",
       "div[jscontroller='t2mBxb']" >>

camera_selectors ==
    << "div[role='button'][aria-label*='Turn off camera']",
       "div[aria-label*='camera'][role='button']",
       "div[data-is-muted='false'][aria-label*='camera']",
       "button[aria-label*='Turn off camera']",
       "div[jscontroller='bwqwSd']" >>

join_selectors ==
    << "button[jsname='Qx7uuf']",
       "button[aria-label*='Join now']",
       "button[aria-label*='Ask to join']" >>

SetNames == {"mic", "cam", "join"}

Selectors(s) ==
    CASE s = "mic"  -> mic_selectors
      [] s = "cam"  -> camera_selectors
      [] s = "join" -> join_selectors

\* Seconds given to WebDriverWait for one selector of each list.
MicTimeout == 5
CameraTimeout == 5
JoinTimeout == 10

Budget(s) ==
    CASE s = "mic"  -> MicTimeout
      [] s = "cam"  -> CameraTimeout
      [] s = "join" -> JoinTimeout

\* The steps of login(), in program order.
LoginSteps ==
    << "get_login_page",        \* driver.get
       "wait_identifierId",     \* presence of identifierId
       "type_email",            \* clear + send_keys
       "wait_identifierNext",   \* identifierNext clickable
       "click_identifierNext",
       "wait_Passwd_present",   \* inner try starts here
       "wait_Passwd_clickable",
       "type_password",
       "wait_passwordNext",
       "click_passwordNext",
       "wait_gb" >>

WaitSteps == {2, 4, 6, 7, 9, 11}

\* First step inside the inner try block of login().
InnerTryFirst == 6

NoExc == [kind |-> "none", origin |-> "none"]

\* Outcomes of WebDriverWait(...).until: the element, TimeoutException, or
\* any other exception raised by the condition (e.g. the session is gone).
WaitOutcomes == {"ok", "timeout", "error"}

\* Outcomes of any other call on the driver or an external collaborator.
CallOutcomes == {"ok", "error"}

ExcOf(outcome, origin) ==
    [kind |-> IF outcome = "timeout" THEN "TimeoutException"
              ELSE "WebDriverException",
     origin |-> origin]

EnvValues == {"unset", "empty", "set"}

\* Values of the HEADLESS environment variable: absent, or one of these strings.
HeadlessValues == {"unset", "", "true", "false", "0", "1"}

\* _verify_join_status: the indicators checked, in order.
join_indicators ==
    << "div[data-self-name]",
       "div[aria-label*='Meeting details']",
       "div[aria-label*='participants']" >>

\* Largest number of elements a find_elements query returns in the model.
MaxMatches == 2

\* What find_elements does for one indicator: -1 when it raises, otherwise
\* the length of the list it returns.
QueryResults == -1 .. MaxMatches

----------------------------------------------------------------------------
(* Decisions the code takes, as operators *)

\* Variant: the fields tested with `is not None` only.
ConfigValidNotNone(c) ==
    c.email # "unset" /\ c.password # "unset" /\ c.meet_link # "unset"

\* main: all([config.email, config.password, config.meet_link]); None and ""
\* are both falsy.
ConfigValid(c) ==
    c.email = "set" /\ c.password = "set" /\ c.meet_link = "set"

\* main line 382: bool(os.getenv('HEADLESS', False)). An unset variable gives
\* the default False; a set one gives its string, and bool of a string is
\* true exactly when the string is not empty.
ParseHeadless(v) ==
    IF v = "unset" THEN FALSE ELSE v # ""

\* _setup_driver, lines 110-111: '--headless' is added iff config.headless.
DriverHeadless(h) == h

\* Variant: an empty result list taken for a match (`is not None`).
IndicatorFoundNotNone(r) == r >= 0

\* _verify_join_status, line 309: `if self.driver.find_elements(...)` is true
\* when the query returned a non-empty list; a query that raised is skipped.
IndicatorFound(r) == r > 0

\* Variant: login's outer handler without its `raise`, so main carries on.
PropagateSwallowLogin(handler) ==
    CASE handler = "login_inner_except" -> "login_outer_except"
      [] handler = "login_outer_except" -> "join_get"
      [] handler = "media_except"       -> "join_except"
      [] handler = "join_except"        -> "main_except"
      [] handler = "main_except"        -> "finally"

\* Variant: join_meeting's handler without its `raise`, so main carries on.
PropagateSwallowJoin(handler) ==
    CASE handler = "login_inner_except" -> "login_outer_except"
      [] handler = "login_outer_except" -> "main_except"
      [] handler = "media_except"       -> "join_except"
      [] handler = "join_except"        -> "audio"
      [] handler = "main_except"        -> "finally"

\* Variant: login retried after a failure instead of re-raising.
PropagateRetryLogin(handler) ==
    CASE handler = "login_inner_except" -> "login_outer_except"
      [] handler = "login_outer_except" -> "login"
      [] handler = "media_except"       -> "join_except"
      [] handler = "join_except"        -> "main_except"
      [] handler = "main_except"        -> "finally"

\* Where control goes when a handler ends with a bare `raise`: to the
\* enclosing handler, and from main's handler through finally out of main.
Propagate(handler) ==
    CASE handler = "login_inner_except" -> "login_outer_except"
      [] handler = "login_outer_except" -> "main_except"
      [] handler = "media_except"       -> "join_except"
      [] handler = "join_except"        -> "main_except"
      [] handler = "main_except"        -> "finally"

\* Variant: the join handler with the label copied from the media handler.
HandlerLabelCopied(handler) ==
    CASE handler = "login_inner_except" -> "password_field_timeout"
      [] handler = "login_outer_except" -> "login_failure"
      [] handler = "media_except"       -> "media_control_failure"
      [] handler = "join_except"        -> "media_control_failure"

\* The label each handler passes to _capture_screenshot.
HandlerLabel(handler) ==
    CASE handler = "login_inner_except" -> "password_field_timeout"
      [] handler = "login_outer_except" -> "login_failure"
      [] handler = "media_except"       -> "media_control_failure"
      [] handler = "join_except"        -> "join_failure"

\* The error message each handler logs before capturing.
HandlerLog(handler) ==
    CASE handler = "login_inner_except" -> "Timeout waiting for password field"
      [] handler = "login_outer_except" -> "Failed to login"
      [] handler = "media_except"       -> "Failed to control media devices"
      [] handler = "join_except"        -> "Failed to join meeting"

\* Variant: _capture_screenshot without its try/except.
CaptureRaisesOnFailure(saved) == ~saved

\* _capture_screenshot wraps save_screenshot in try/except Exception and only
\* logs: no exception leaves it, whether or not the screenshot was saved.
CaptureRaises(saved) == FALSE

\* Variant: the loop without `break` after a success.
LoopNextNoBreak(n, i, success) ==
    IF i < n THEN i + 1 ELSE 0

\* Variant: `break` in place of `continue` in the except clause.
LoopNextBreakOnFailure(n, i, success) == 0

\* Variant: a failing candidate also skips the candidate after it.
LoopNextSkipOne(n, i, success) ==
    IF success THEN 0
    ELSE IF i + 1 < n THEN i + 2 ELSE 0

\* for selector in selectors: try ... break / except: continue.
\* The index of the next selector to try, 0 when the loop ends.
LoopNext(n, i, success) ==
    IF success THEN 0
    ELSE IF i < n THEN i + 1 ELSE 0

\* Variant: every loop raises when it found nothing.
ExhaustedRaisesAlways(s) == TRUE

\* What follows a loop that ended without a usable element: the join loop
\* raises Exception("Could not find any join button"); the microphone and
\* camera loops only log a warning.
ExhaustedRaises(s) == s = "join"

\* The handler that catches an exception raised in the stage of list s.
HandlerOf(s) == IF s = "join" THEN "join_except" ELSE "media_except"

\* Variant: the camera loop left out.
AfterLoopSkipCamera(s) ==
    CASE s = "mic"  -> "dump"
      [] s = "cam"  -> "dump"
      [] s = "join" -> "join_click"

\* The control point after the loop over list s, when nothing is raised.
AfterLoop(s) ==
    CASE s = "mic"  -> "cam_wait"
      [] s = "cam"  -> "dump"
      [] s = "join" -> "join_click"

WarningOf(s) ==
    IF s = "mic" THEN "Could not find microphone button with any selector"
    ELSE "Could not find camera button with any selector"

\* Variant: main without the cleanup call.
FinallyCleansNever(b) == FALSE

\* Variant: cleanup called at the end of the try body instead of in finally.
FinallyCleansOnSuccess(b) == b # "none" /\ exc.kind = "none"

\* main's finally: `if bot is not None: bot.cleanup()`.
FinallyCleans(b) == b # "none"

\* Variant: cleanup without its try/except around driver.quit().
CleanupRaisesOnFailure(o) == o = "error"

\* cleanup() wraps driver.quit() in try/except Exception and only logs
\* "Failed to cleanup": no exception leaves it, whatever quit() did.
CleanupRaises(o) == FALSE

\* Variant: main's handler without its `raise`.
ExitStatusZero(e) == 0

\* An exception that leaves main ends the interpreter with status 1.
ExitStatus(e) == IF e.kind = "none" THEN 0 ELSE 1

----------------------------------------------------------------------------
InitRun ==
    /\ pc = "start"
    /\ config = [email |-> "none", password |-> "none", meet_link |-> "none",
                 headless |-> FALSE]
    /\ bot = "none"
    /\ exc = NoExc
    /\ log = {}
    /\ shots = << >>
    /\ dumps = 0
    /\ releaseCount = 0
    /\ exitStatus = -1
    /\ loginStep = 0
    /\ idx = 0
    /\ tried = [s \in SetNames |-> 0]
    /\ elapsed = [s \in SetNames |-> 0]
    /\ errors = [s \in SetNames |-> 0]
    /\ found = [s \in SetNames |-> 0]
    /\ started = << >>

\* In a run of main() no helper is applied on its own.
Init ==
    /\ InitRun
    /\ fpc = [headless |-> "idle", verify |-> "idle"]
    /\ headlessEnv = "unset"
    /\ headlessCfg = FALSE
    /\ headlessOpt = FALSE
    /\ indicators = [i \in DOMAIN join_indicators |-> 0]
    /\ vidx = 0
    /\ vresult = FALSE

loopVars == <<idx, tried, elapsed, errors, found>>

\* main, lines 376-386: build MeetConfig from the environment and validate it.
MainConfig ==
    /\ pc = "start"
    /\ UNCHANGED helperVars
    /\ \E e \in EnvValues, p \in EnvValues, m \in EnvValues,
          d \in {"unset", "int", "bad"}, h \in HeadlessValues :
         LET c == [email |-> e, password |-> p, meet_link |-> m,
                   headless |-> ParseHeadless(h)] IN
         IF d = "bad"
         THEN \* int(os.getenv('RECORDING_DURATION', 30)) raises ValueError
              /\ exc' = [kind |-> "ValueError", origin |-> "config"]
              /\ pc' = "main_except"
              /\ UNCHANGED config
         ELSE /\ config' = c
              /\ IF ConfigValid(c)
                 THEN pc' = "create_bot" /\ UNCHANGED exc
                 ELSE /\ exc' = [kind |-> "ValueError", origin |-> "config"]
                      /\ pc' = "main_except"
    /\ UNCHANGED <<bot, log, shots, dumps, releaseCount, exitStatus,
                   loginStep, started>>
    /\ UNCHANGED loopVars

\* main line 388, GoogleMeetBot.__init__ and _setup_driver: webdriver.Chrome
\* either returns the session or raises, in which case bot stays None.
CreateBot ==
    /\ pc = "create_bot"
    /\ UNCHANGED helperVars
    /\ \E o \in CallOutcomes :
         IF o = "ok"
         THEN /\ bot' = "created"
              /\ pc' = "login"
              /\ loginStep' = 1
              /\ UNCHANGED exc
         ELSE /\ exc' = ExcOf(o, "create_bot")
              /\ pc' = "main_except"
              /\ UNCHANGED <<bot, loginStep>>
    /\ UNCHANGED <<config, log, shots, dumps, releaseCount, exitStatus, started>>
    /\ UNCHANGED loopVars

\* login(), lines 124-164: one step of the straight-line body. A failing step
\* raises; a TimeoutException inside the inner try is caught by the inner
\* handler, everything else by the outer one.
LoginStep ==
    /\ pc = "login"
    /\ UNCHANGED helperVars
    /\ \E o \in (IF loginStep \in WaitSteps THEN WaitOutcomes ELSE CallOutcomes) :
         IF o = "ok"
         THEN /\ IF loginStep < Len(LoginSteps)
                 THEN /\ loginStep' = loginStep + 1
                      /\ pc' = "login"
                      /\ log' = log \cup {"Starting Google login process"}
                 ELSE /\ loginStep' = 0
                      /\ pc' = "join_get"
                      /\ log' = log \cup {"Successfully logged into Google account"}
              /\ UNCHANGED exc
         ELSE /\ exc' = ExcOf(o, LoginSteps[loginStep])
              /\ pc' = IF o = "timeout" /\ loginStep >= InnerTryFirst
                       THEN "login_inner_except"
                       ELSE "login_outer_except"
              /\ log' = log \cup {"Starting Google login process"}
              /\ UNCHANGED loginStep
    /\ started' = IF loginStep = 1 THEN Append(started, "login") ELSE started
    /\ UNCHANGED <<config, bot, shots, dumps, releaseCount, exitStatus>>
    /\ UNCHANGED loopVars

\* An except block that logs, calls _capture_screenshot(label) and re-raises.
\* _capture_screenshot (lines 346-354): save_screenshot succeeds or fails.
Handler(h) ==
    /\ pc = h
    /\ UNCHANGED helperVars
    /\ \E saved \in BOOLEAN :
         /\ shots' = Append(shots, [label |-> HandlerLabel(h), saved |-> saved])
         /\ log' = log \cup {HandlerLog(h)}
                       \cup (IF saved THEN {"Screenshot saved"}
                             ELSE {"Failed to capture screenshot"})
         /\ exc' = IF CaptureRaises(saved)
                   THEN [kind |-> "WebDriverException", origin |-> "save_screenshot"]
                   ELSE exc
    /\ pc' = Propagate(h)
    /\ UNCHANGED <<config, bot, dumps, releaseCount, exitStatus, loginStep, started>>
    /\ UNCHANGED loopVars

\* login(), lines 166-169.
LoginInnerExcept == Handler("login_inner_except")

\* login(), lines 171-174.
LoginOuterExcept == Handler("login_outer_except")

\* _control_media_devices(), lines 250-253.
MediaExcept == Handler("media_except")

\* join_meeting(), lines 293-296.
JoinExcept == Handler("join_except")

\* join_meeting(), lines 258-263: navigate to the meeting, then enter
\* _control_media_devices, whose first loop starts at the first selector.
JoinGet ==
    /\ pc = "join_get"
    /\ UNCHANGED helperVars
    /\ started' = Append(started, "join_meeting")
    /\ \E o \in CallOutcomes :
         IF o = "ok"
         THEN /\ pc' = "mic_wait"
              /\ idx' = 1
              /\ UNCHANGED exc
         ELSE /\ exc' = ExcOf(o, "get_meet_link")
              /\ pc' = "join_except"
              /\ UNCHANGED idx
    /\ log' = log \cup {"Navigating to meeting"}
    /\ UNCHANGED <<config, bot, shots, dumps, releaseCount, exitStatus, loginStep,
                   tried, elapsed, errors, found>>

WaitPc(s) ==
    CASE s = "mic"  -> "mic_wait"
      [] s = "cam"  -> "cam_wait"
      [] s = "join" -> "join_wait"

ClickPc(s) == IF s = "mic" THEN "mic_click" ELSE "cam_click"

\* The end of one iteration of the loop over list s: `break` on success,
\* `continue` otherwise, and after the loop the test of mic_found /
\* camera_found / join_button (f is its value: the selector found, 0 if none).
LoopStep(s, success, f) ==
    LET next == LoopNext(Len(Selectors(s)), idx, success) IN
    IF next # 0
    THEN /\ idx' = next
         /\ pc' = WaitPc(s)
         /\ UNCHANGED <<exc, log>>
    ELSE IF f = 0 /\ ExhaustedRaises(s)
    THEN /\ exc' = [kind |-> "Exception", origin |-> "selectors_exhausted"]
         /\ pc' = HandlerOf(s)
         /\ idx' = 0
         /\ UNCHANGED log
    ELSE /\ pc' = AfterLoop(s)
         /\ idx' = IF s = "mic" THEN 1 ELSE 0
         /\ log' = IF f = 0 THEN log \cup {WarningOf(s)} ELSE log
         /\ UNCHANGED exc

\* WebDriverWait(driver, Budget).until(element_to_be_clickable(selector)) for
\* the current selector of list s. In the microphone and camera loops the
\* element is then clicked inside the same try; in the join loop the element
\* itself ends the loop.
TryWait(s) ==
    /\ pc = WaitPc(s)
    /\ UNCHANGED helperVars
    /\ \E o \in WaitOutcomes :
         /\ tried' = [tried EXCEPT ![s] = idx]
         /\ elapsed' = IF o = "timeout"
                       THEN [elapsed EXCEPT ![s] = @ + Budget(s)]
                       ELSE elapsed
         /\ errors' = IF o = "error"
                      THEN [errors EXCEPT ![s] = @ + 1]
                      ELSE errors
         /\ IF o = "ok" /\ s # "join"
            THEN /\ pc' = ClickPc(s)
                 /\ UNCHANGED <<idx, found, exc, log>>
            ELSE /\ found' = IF o = "ok" THEN [found EXCEPT ![s] = idx] ELSE found
                 /\ LoopStep(s, o = "ok", found'[s])
    /\ UNCHANGED <<config, bot, shots, dumps, releaseCount, exitStatus,
                   loginStep, started>>

\* mic_button.click() / camera_button.click() on the resolved element: on
\* success the found flag is set and the loop breaks; a failing click is
\* caught like a failing wait and the next selector is tried.
TryClick(s) ==
    /\ pc = ClickPc(s)
    /\ UNCHANGED helperVars
    /\ \E o \in CallOutcomes :
         /\ found' = IF o = "ok" THEN [found EXCEPT ![s] = idx] ELSE found
         /\ LoopStep(s, o = "ok", found'[s])
    /\ UNCHANGED <<config, bot, shots, dumps, releaseCount, exitStatus,
                   loginStep, started, tried, elapsed, errors>>

\* _control_media_devices(), lines 208-225.
MicWait == TryWait("mic")
MicClick == TryClick("mic")

\* _control_media_devices(), lines 227-244.
CameraWait == TryWait("cam")
CameraClick == TryClick("cam")

\* _control_media_devices(), lines 246-248: the unconditional dump of
\* driver.page_source to page_source.html; a failure is raised to the
\* function's own handler. On success join_meeting goes on to its loop.
DumpPageSource ==
    /\ pc = "dump"
    /\ UNCHANGED helperVars
    /\ \E o \in CallOutcomes :
         IF o = "ok"
         THEN /\ dumps' = dumps + 1
              /\ pc' = "join_wait"
              /\ idx' = 1
              /\ UNCHANGED exc
         ELSE /\ exc' = ExcOf(o, "page_source")
              /\ pc' = "media_except"
              /\ UNCHANGED <<dumps, idx>>
    /\ log' = log \cup {"Dumping page source for debugging..."}
    /\ UNCHANGED <<config, bot, shots, releaseCount, exitStatus, loginStep,
                   started, tried, elapsed, errors, found>>

\* join_meeting(), lines 271-281 and the test at 283/290.
JoinWait == TryWait("join")

\* join_meeting(), lines 283-289: click the join button that was found.
JoinClick ==
    /\ pc = "join_click"
    /\ UNCHANGED helperVars
    /\ \E o \in CallOutcomes :
         IF o = "ok"
         THEN /\ pc' = "audio"
              /\ log' = log \cup {"Join button clicked"}
              /\ UNCHANGED exc
         ELSE /\ exc' = ExcOf(o, "join_button_click")
              /\ pc' = "join_except"
              /\ log' = log \cup {"Found join button, attempting to click..."}
    /\ UNCHANGED <<config, bot, shots, dumps, releaseCount, exitStatus,
                   loginStep, started>>
    /\ UNCHANGED loopVars

\* main line 395 and AudioRecorder.get_audio, lines 56-83: record or log and
\* re-raise.
GetAudio ==
    /\ pc = "audio"
    /\ UNCHANGED helperVars
    /\ started' = Append(started, "get_audio")
    /\ \E o \in CallOutcomes :
         IF o = "ok"
         THEN /\ pc' = "transcribe"
              /\ log' = log \cup {"Starting audio recording..."}
              /\ UNCHANGED exc
         ELSE /\ exc' = [kind |-> "RecordingError", origin |-> "get_audio"]
              /\ pc' = "main_except"
              /\ log' = log \cup {"Starting audio recording...",
                                  "Error during audio recording"}
    /\ UNCHANGED <<config, bot, shots, dumps, releaseCount, exitStatus, loginStep>>
    /\ UNCHANGED loopVars

\* main lines 396-397: SpeechToText().transcribe(audio_path).
Transcribe ==
    /\ pc = "transcribe"
    /\ UNCHANGED helperVars
    /\ started' = Append(started, "transcribe")
    /\ \E o \in CallOutcomes :
         IF o = "ok"
         THEN /\ pc' = "finally"
              /\ log' = log \cup {"Transcription"}
              /\ UNCHANGED exc
         ELSE /\ exc' = [kind |-> "TranscriptionError", origin |-> "transcribe"]
              /\ pc' = "main_except"
              /\ UNCHANGED log
    /\ UNCHANGED <<config, bot, shots, dumps, releaseCount, exitStatus, loginStep>>
    /\ UNCHANGED loopVars

\* main lines 399-401: log the failure and re-raise.
MainExcept ==
    /\ pc = "main_except"
    /\ UNCHANGED helperVars
    /\ log' = log \cup {"Bot execution failed"}
    /\ pc' = Propagate("main_except")
    /\ UNCHANGED <<config, bot, exc, shots, dumps, releaseCount, exitStatus,
                   loginStep, started>>
    /\ UNCHANGED loopVars

\* main lines 403-414 with cleanup(), lines 356-363: when a bot exists,
\* driver.quit() is called once and its failure is only logged; then main
\* returns or the pending exception leaves it.
Finally ==
    /\ pc = "finally"
    /\ UNCHANGED helperVars
    /\ IF FinallyCleans(bot)
       THEN \E o \in CallOutcomes :
              /\ releaseCount' = releaseCount + 1
              /\ started' = Append(started, "cleanup")
              /\ log' = log \cup {IF o = "ok" THEN "Browser session closed"
                                  ELSE "Failed to cleanup"}
              /\ exc' = IF CleanupRaises(o)
                        THEN [kind |-> "WebDriverException", origin |-> "quit"]
                        ELSE exc
       ELSE UNCHANGED <<releaseCount, started, log, exc>>
    /\ pc' = "done"
    /\ exitStatus' = ExitStatus(exc')
    /\ UNCHANGED <<config, bot, shots, dumps, loginStep>>
    /\ UNCHANGED loopVars

Next ==
    \/ MainConfig
    \/ CreateBot
    \/ LoginStep
    \/ LoginInnerExcept
    \/ LoginOuterExcept
    \/ JoinGet
    \/ MicWait
    \/ MicClick
    \/ CameraWait
    \/ CameraClick
    \/ DumpPageSource
    \/ MediaExcept
    \/ JoinWait
    \/ JoinClick
    \/ JoinExcept
    \/ GetAudio
    \/ Transcribe
    \/ MainExcept
    \/ Finally

Spec == Init /\ [][Next]_vars

\* The run is one thread of control and every call on the browser or on a
\* collaborator returns: a step that can be taken is eventually taken.
FairSpec == Spec /\ WF_vars(Next)

----------------------------------------------------------------------------
(* The helpers applied on their own, to every input *)

HelperInit ==
    /\ InitRun
    /\ fpc = [headless |-> "env", verify |-> "call"]
    /\ headlessEnv \in HeadlessValues
    /\ headlessCfg = FALSE
    /\ headlessOpt = FALSE
    /\ indicators \in [DOMAIN join_indicators -> QueryResults]
    /\ vidx = 0
    /\ vresult = FALSE

\* main line 382: config.headless from the HEADLESS variable.
ReadHeadless ==
    /\ fpc.headless = "env"
    /\ headlessCfg' = ParseHeadless(headlessEnv)
    /\ fpc' = [fpc EXCEPT !.headless = "config"]
    /\ UNCHANGED <<headlessEnv, headlessOpt, indicators, vidx, vresult>>
    /\ UNCHANGED runVars

\* _setup_driver, lines 104-120: the options of the Chrome session.
SetupDriver ==
    /\ fpc.headless = "config"
    /\ headlessOpt' = DriverHeadless(headlessCfg)
    /\ fpc' = [fpc EXCEPT !.headless = "driver"]
    /\ UNCHANGED <<headlessEnv, headlessCfg, indicators, vidx, vresult>>
    /\ UNCHANGED runVars

\* _verify_join_status, lines 300-307: entry, the loop starts at the first
\* indicator.
VerifyCall ==
    /\ fpc.verify = "call"
    /\ vidx' = 1
    /\ fpc' = [fpc EXCEPT !.verify = "loop"]
    /\ UNCHANGED <<headlessEnv, headlessCfg, headlessOpt, indicators, vresult>>
    /\ UNCHANGED runVars

\* _verify_join_status, lines 307-315: one iteration of the loop; True is
\* returned on the first indicator found, False after the last one.
VerifyStep ==
    /\ fpc.verify = "loop"
    /\ IF IndicatorFound(indicators[vidx])
       THEN /\ vresult' = TRUE
            /\ fpc' = [fpc EXCEPT !.verify = "returned"]
            /\ UNCHANGED vidx
       ELSE IF vidx < Len(join_indicators)
       THEN /\ vidx' = vidx + 1
            /\ UNCHANGED <<vresult, fpc>>
       ELSE /\ vresult' = FALSE
            /\ fpc' = [fpc EXCEPT !.verify = "returned"]
            /\ UNCHANGED vidx
    /\ UNCHANGED <<headlessEnv, headlessCfg, headlessOpt, indicators>>
    /\ UNCHANGED runVars

HelperNext ==
    \/ ReadHeadless
    \/ SetupDriver
    \/ VerifyCall
    \/ VerifyStep

HelperSpec == HelperInit /\ [][HelperNext]_vars

TypeOK ==
    /\ pc \in {"start", "create_bot", "login", "login_inner_except",
               "login_outer_except", "join_get", "mic_wait", "mic_click",
               "cam_wait", "cam_click", "dump", "media_except", "join_wait",
               "join_click", "join_except", "audio", "transcribe",
               "main_except", "finally", "done"}
    /\ bot \in {"none", "created"}
    /\ releaseCount \in 0..2
    /\ exitStatus \in {-1, 0, 1}
    /\ loginStep \in 0..Len(LoginSteps)

----------------------------------------------------------------------------
(* Vocabulary of the properties *)

Range(f) == {f[i] : i \in DOMAIN f}

\* Where an exception raised by login() or by join_meeting() originates.
LoginOrigins == Range(LoginSteps)
JoinOrigins == {"get_meet_link", "page_source", "selectors_exhausted",
                "join_button_click"}

LoginFailed == exc.origin \in LoginOrigins
JoinFailed == exc.origin \in JoinOrigins
Failed == exc.kind # "none"

\* The failure has left login()/join_meeting() and reached main.
AtOrchestrator == pc \in {"main_except", "finally", "done"}

\* The loop over list s has reported that no selector was usable.
Reported(s) ==
    IF s = "join" THEN exc.origin = "selectors_exhausted"
    ELSE WarningOf(s) \in log

\* No wait on a selector of list s has returned an element.
NoneResolved(s) == tried[s] = (elapsed[s] \div Budget(s)) + errors[s]

----------------------------------------------------------------------------
\* C1 (as stated): at the end of every run, whichever step failed (config
\* validation and browser creation included), driver.quit has been invoked
\* exactly once.
C1_ReleaseOncePerRun ==
    pc = "done" => releaseCount = 1

\* C1 (amended): driver.quit is never invoked twice, and at the end of a run
\* it has been invoked exactly once if the browser session was created and
\* not at all if the run failed before a session existed.
C1_ReleaseOncePerSession ==
    /\ releaseCount <= 1
    /\ pc = "done" => releaseCount = (IF bot = "created" THEN 1 ELSE 0)

\* A run whose session was created and that failed later ended with one release.
C1_Witness ==
    /\ pc = "done"
    /\ bot = "created"
    /\ Failed
    /\ releaseCount = 1

\* C2: main invokes login, then join_meeting, then the recorder, then the
\* transcriber, in that order; after a failure of login nothing of
\* join_meeting, recording or transcription is invoked, after a failure of
\* join_meeting no recording or transcription, and the session is released.
C2_LoginThenJoin ==
    LET stages == SelectSeq(started, LAMBDA x : x # "cleanup")
        order == <<"login", "join_meeting", "get_audio", "transcribe">>
    IN  /\ \E n \in 0..Len(order) : stages = SubSeq(order, 1, n)
        /\ LoginFailed => Range(stages) = {"login"}
        /\ JoinFailed => Range(stages) = {"login", "join_meeting"}
        /\ (pc = "done" /\ (LoginFailed \/ JoinFailed)) => releaseCount = 1

\* A run in which login failed ended having started login only, and cleanup.
C2_Witness ==
    /\ pc = "done"
    /\ LoginFailed
    /\ started = <<"login", "cleanup">>
    /\ releaseCount = 1

\* C3 (as stated): in each selector list, once the wait on a selector has
\* returned an interactable element, no later selector is evaluated.
C3_StopAtFirstInteractable ==
    [][\A s \in SetNames :
         ((s # "join" /\ pc = ClickPc(s)) \/ found[s] # 0)
             => pc' # WaitPc(s)]_vars

\* C3 (amended): the selectors of each list are evaluated strictly in list
\* order, and none is evaluated after one has succeeded, where a microphone
\* or camera selector succeeds when its element became interactable and the
\* click on it did not fail, and a join selector when its element became
\* interactable.
C3_StopAtFirstSuccess ==
    \A s \in SetNames :
        /\ tried[s] <= Len(Selectors(s))
        /\ pc = WaitPc(s) => idx = tried[s] + 1
        /\ (s # "join" /\ pc = ClickPc(s)) => idx = tried[s]
        /\ found[s] # 0 => tried[s] = found[s]

\* The camera loop ended on its third selector and evaluated no fourth one.
C3_Witness ==
    /\ pc = "dump"
    /\ found["cam"] = 3
    /\ tried["cam"] = 3

\* C4 (as stated): when a list is reported exhausted and no selector of it
\* ever became interactable, the full budget of every selector has elapsed.
C4_ExhaustedOnlyAfterAllBudgets ==
    \A s \in SetNames :
        (Reported(s) /\ NoneResolved(s))
            => elapsed[s] = Len(Selectors(s)) * Budget(s)

\* C4 (amended): a list is reported exhausted only after every selector of
\* it has been evaluated; when each of the waits ended by timing out, all n
\* budgets have elapsed by then, whereas a wait ended by another error ends
\* at once and its budget does not elapse.
C4_ExhaustedAfterAllTimeouts ==
    \A s \in SetNames :
        (Reported(s) /\ NoneResolved(s))
            => /\ tried[s] = Len(Selectors(s))
               /\ errors[s] = 0 => elapsed[s] = Len(Selectors(s)) * Budget(s)

\* The microphone list was reported exhausted after five full timeouts.
C4_Witness ==
    /\ Reported("mic")
    /\ NoneResolved("mic")
    /\ errors["mic"] = 0
    /\ elapsed["mic"] = Len(mic_selectors) * MicTimeout

\* C5: a microphone or camera loop that finds nothing does not abort the
\* run: the microphone stage is always followed by the camera stage, the
\* camera stage by the rest of _control_media_devices and, once the page
\* source is written, by the search for the join button; and when the join
\* button is clicked join_meeting returns with the warning logged, no
\* exception and no screenshot.
C5_MuteFailureNotFatal ==
    [][/\ (pc \in {"mic_wait", "mic_click"} /\ pc' \notin {"mic_wait", "mic_click"})
            => pc' = "cam_wait"
       /\ (pc \in {"cam_wait", "cam_click"} /\ pc' \notin {"cam_wait", "cam_click"})
            => pc' = "dump"
       /\ (pc = "dump" /\ dumps' = dumps + 1) => pc' = "join_wait"
       /\ (pc = "join_click" /\ pc' = "audio")
            => /\ exc' = NoExc
               /\ shots' = << >>
               /\ \A s \in {"mic", "cam"} : found'[s] = 0 => WarningOf(s) \in log']_vars

\* Microphone list exhausted, camera on its third selector, join button on
\* the first: join_meeting has returned with the microphone warning only.
C5_Witness ==
    /\ pc = "audio"
    /\ found = [mic |-> 0, cam |-> 3, join |-> 1]
    /\ tried = [mic |-> 5, cam |-> 3, join |-> 1]
    /\ WarningOf("mic") \in log
    /\ exc = NoExc
    /\ shots = << >>

\* C6: when every join selector has failed, join_meeting raises, exactly one
\* screenshot capture is made and it carries the join label, nothing after
\* join_meeting is started, and the run ends with status 1 and the session
\* released.
C6_JoinExhaustedOneCapture ==
    (exc.origin = "selectors_exhausted" /\ AtOrchestrator)
        => /\ tried["join"] = Len(join_selectors)
           /\ Len(shots) = 1
           /\ shots[1].label = "join_failure"
           /\ "get_audio" \notin Range(started)
           /\ pc = "done" => (exitStatus = 1 /\ releaseCount = 1)

\* A run ended after the join list was exhausted.
C6_Witness ==
    /\ pc = "done"
    /\ exc.origin = "selectors_exhausted"
    /\ found["join"] = 0
    /\ Len(shots) = 1
    /\ exitStatus = 1
    /\ releaseCount = 1

\* The waits on the password field (presence, then clickability).
PasswordWaits == {"wait_Passwd_present", "wait_Passwd_clickable"}

\* C7: when a wait on the password field times out, login raises that
\* TimeoutException, exactly one screenshot capture is made in the run, it
\* carries a login label, and the session is released.
C7_PasswordTimeoutOneCapture ==
    (exc.kind = "TimeoutException" /\ exc.origin \in PasswordWaits /\ AtOrchestrator)
        => /\ Len(shots) = 1
           /\ shots[1].label \in {"password_field_timeout", "login_failure"}
           /\ pc = "done" => releaseCount = 1

\* C8: in a run where every wait returns and every list matches on its first
\* selector, login and join_meeting succeed and neither a screenshot nor a
\* page-source dump has been produced.
C8_CleanRunNoArtifacts ==
    (pc = "audio" /\ tried = [s \in SetNames |-> 1] /\ found = [s \in SetNames |-> 1])
        => /\ exc = NoExc
           /\ shots = << >>
           /\ dumps = 0

\* C9: _capture_screenshot returns normally whether or not the screenshot
\* could be saved: the handler that called it goes on to its `raise`, and
\* the exception it re-raises is the one it caught.
C9_CaptureNeverRaises ==
    [][(pc \in {"login_inner_except", "login_outer_except", "media_except",
                "join_except"})
          => (/\ exc' = exc
              /\ pc' = Propagate(pc)
              /\ Len(shots') = Len(shots) + 1)]_vars

\* The screenshot of a join failure could not be saved, and the exception
\* that reached main is still the join failure.
C9_Witness ==
    /\ pc = "main_except"
    /\ Len(shots) = 1
    /\ ~shots[1].saved
    /\ "Failed to capture screenshot" \in log
    /\ exc = [kind |-> "Exception", origin |-> "selectors_exhausted"]

\* C10 (as stated): every run that ends in a failure has logged the cause,
\* made at least one screenshot capture, released the session and ended
\* with a non-zero status.
C10_EveryFailureFullyHandled ==
    (pc = "done" /\ Failed)
        => /\ "Bot execution failed" \in log
           /\ Len(shots) >= 1
           /\ releaseCount = 1
           /\ exitStatus = 1

\* C10 (amended): every run that ends in a failure has logged the cause and
\* ends with a non-zero status; a failure raised by login or join_meeting has
\* had at least one screenshot capture attempted before it reaches main; and
\* the session is released whenever it had been created. A failure of
\* configuration, browser creation, recording or transcription has no
\* capture attempt.
C10_FailureHandled ==
    /\ (AtOrchestrator /\ (LoginFailed \/ JoinFailed)) => Len(shots) >= 1
    /\ (AtOrchestrator /\ Failed /\ ~LoginFailed /\ ~JoinFailed) => shots = << >>
    /\ (pc = "done" /\ Failed)
          => /\ "Bot execution failed" \in log
             /\ exitStatus = 1
             /\ releaseCount = (IF bot = "created" THEN 1 ELSE 0)
    /\ (pc = "done" /\ ~Failed) => exitStatus = 0

\* A run ended after the click on the join button failed: logged, captured
\* once, released, status 1.
C10_Witness ==
    /\ pc = "done"
    /\ exc.origin = "join_button_click"
    /\ "Bot execution failed" \in log
    /\ Len(shots) = 1
    /\ releaseCount = 1
    /\ exitStatus = 1

\* A MeetConfig object has been built (its fields come from the environment).
Constructed == config.email # "none"

\* The config's email, password and meeting link are all present and non-empty.
NonEmpty(c) == \A f \in {"email", "password", "meet_link"} : c[f] = "set"

Count(seq, x) == Cardinality({i \in DOMAIN seq : seq[i] = x})

\* C11 (as stated): a config whose email, password or meeting link is empty
\* or missing cannot be constructed.
C11_InvalidConfigNotConstructed ==
    Constructed => NonEmpty(config)

\* C11 (amended): MeetConfig itself accepts an empty or missing email,
\* password or meeting link; main rejects such a config with a ValueError
\* right after building it, and in that run no browser session is acquired
\* or released and no stage is started.
C11_InvalidConfigRejected ==
    /\ (Constructed /\ ~NonEmpty(config))
          => /\ AtOrchestrator
             /\ exc = [kind |-> "ValueError", origin |-> "config"]
             /\ bot = "none"
             /\ started = << >>
             /\ releaseCount = 0
             /\ pc = "done" => exitStatus = 1
    /\ bot = "created" => NonEmpty(config)

\* A run given an empty email ended without a session and without a stage.
C11_Witness ==
    /\ pc = "done"
    /\ config.email = "empty"
    /\ config.password = "set"
    /\ config.meet_link = "set"
    /\ bot = "none"
    /\ started = << >>
    /\ exitStatus = 1

\* C12: the recorder is invoked at most once and only after join_meeting
\* returned normally; the transcriber at most once and only after the
\* recorder returned normally; a failing recording reaches main unchanged
\* and no transcription is started.
C12_AudioThenTranscribe ==
    /\ Count(started, "get_audio") <= 1
    /\ Count(started, "transcribe") <= 1
    /\ Count(started, "get_audio") = 1
          => /\ "Join button clicked" \in log
             /\ ~LoginFailed /\ ~JoinFailed
             /\ exc.origin \in {"none", "get_audio", "transcribe"}
    /\ Count(started, "transcribe") = 1
          => /\ Count(started, "get_audio") = 1
             /\ exc.origin \in {"none", "transcribe"}
    /\ exc.origin = "get_audio"
          => /\ AtOrchestrator
             /\ exc.kind = "RecordingError"
             /\ Count(started, "transcribe") = 0
             /\ pc = "done" => exitStatus = 1

\* A run whose recording failed ended without a transcription.
C12_Witness ==
    /\ pc = "done"
    /\ exc.origin = "get_audio"
    /\ started = <<"login", "join_meeting", "get_audio", "cleanup">>
    /\ exitStatus = 1

LoginHandlers == {"login_inner_except", "login_outer_except"}
MicPcs == {"mic_wait", "mic_click"}
CamPcs == {"cam_wait", "cam_click"}

\* The stage of list s is over: a control was clicked or every selector failed.
StageOver(s) == found[s] # 0 \/ tried[s] = Len(Selectors(s))

\* C13: login is one pass over its steps: it is entered once, at its first
\* step; a step is taken only when the step before it succeeded and is never
\* taken again; login is left only after its last step succeeded
\* (authenticated) or with the exception of the step that failed, which goes
\* through login's handlers to main and never back into login.
C13_LoginSinglePass ==
    [][(/\ pc' = "login"
            => \/ (pc = "create_bot" /\ loginStep' = 1)
               \/ (pc = "login" /\ loginStep' = loginStep + 1 /\ exc' = NoExc)
        /\ (pc = "login" /\ pc' # "login")
            => \/ (pc' = "join_get" /\ loginStep = Len(LoginSteps) /\ exc' = NoExc)
               \/ (pc' \in LoginHandlers /\ exc'.origin = LoginSteps[loginStep])
        /\ pc \in LoginHandlers
            => (pc' \in LoginHandlers \cup {"main_except"} /\ exc' = exc))]_vars

\* login has gone through all its steps and returned.
C13_Witness ==
    /\ pc = "join_get"
    /\ started = <<"login">>
    /\ "Successfully logged into Google account" \in log
    /\ exc = NoExc

\* C14: join_meeting navigates, then runs the microphone stage, then the
\* camera stage, then looks for the join button, then clicks it: the click
\* happens at most once, and only after the navigation and after both mute
\* stages are over (a control clicked or the list exhausted).
C14_JoinOrder ==
    [][(/\ (pc' \in MicPcs /\ pc \notin MicPcs) => pc = "join_get"
        /\ (pc' \in CamPcs /\ pc \notin CamPcs) => pc \in MicPcs
        /\ pc' = "dump" => pc \in CamPcs
        /\ (pc' = "join_wait" /\ pc # "join_wait") => pc = "dump"
        /\ pc' = "join_click"
            => /\ pc = "join_wait"
               /\ found'["join"] # 0
               /\ "join_meeting" \in Range(started')
               /\ StageOver("mic")' /\ StageOver("cam")'
        /\ pc = "join_click" => pc' \in {"audio", "join_except"}
        /\ "Join button clicked" \in log => pc' # "join_click")]_vars

\* The join button was clicked after an exhausted microphone stage and a
\* camera stage that ended on the second selector.
C14_Witness ==
    /\ pc = "audio"
    /\ "Join button clicked" \in log
    /\ tried = [mic |-> 5, cam |-> 2, join |-> 2]
    /\ found = [mic |-> 0, cam |-> 2, join |-> 2]

\* C15 (as stated): a run in which a diagnostics artifact (a screenshot or a
\* page-source dump) was produced ends with a failure status, and nothing has
\* been captured while the microphone and camera stages are under way.
C15_CaptureOnlyOnFatalPath ==
    /\ (pc = "done" /\ (shots # << >> \/ dumps > 0)) => exitStatus = 1
    /\ pc \in MicPcs \cup CamPcs \cup {"dump"} => (shots = << >> /\ dumps = 0)

\* The run has ended and the session, if one was acquired, was released.
RunEnded == pc = "done" /\ (bot = "created" => releaseCount = 1)

\* C16 (as stated): a wait only succeeds or times out at its budget, and
\* every run ends, with the session released.
C16_WaitsTimeOutAndRunEnds ==
    /\ [][(/\ (pc = "login" /\ loginStep \in WaitSteps /\ pc' \in LoginHandlers)
                => exc'.kind = "TimeoutException"
           /\ \A s \in SetNames :
                /\ errors'[s] = errors[s]
                /\ elapsed'[s] \in {elapsed[s], elapsed[s] + Budget(s)})]_vars
    /\ <>[]RunEnded

\* C16 (amended): a wait succeeds, times out at its budget, or fails earlier
\* with a driver error; no wait is repeated without bound, and every run
\* ends, with the session released if one was acquired.
C16_RunTerminates ==
    /\ [][(/\ (pc = "login" /\ loginStep \in WaitSteps /\ pc' \in LoginHandlers)
                => exc'.kind \in {"TimeoutException", "WebDriverException"}
           /\ \A s \in SetNames :
                /\ errors'[s] \in {errors[s], errors[s] + 1}
                /\ elapsed'[s] \in {elapsed[s], elapsed[s] + Budget(s)}
                /\ elapsed'[s] + errors'[s] * Budget(s)
                       <= Len(Selectors(s)) * Budget(s))]_vars
    /\ <>[]RunEnded

\* A run that ended after every wait of the three loops timed out.
C16_Witness ==
    /\ pc = "done"
    /\ elapsed = [s \in SetNames |-> Len(Selectors(s)) * Budget(s)]
    /\ releaseCount = 1
    /\ exitStatus = 1

\* The values of HEADLESS that ask for a headless session.
AsksForHeadless(v) == v \in {"true", "1"}

\* C17 (as stated): for every value of HEADLESS, the Chrome session gets
\* '--headless' exactly when the setting asks for headless.
C17_HeadlessIffRequested ==
    fpc.headless = "driver" => (headlessOpt <=> AsksForHeadless(headlessEnv))

\* C18: _verify_join_status returns a boolean; it returns True exactly when
\* some indicator's query returned at least one element, having stopped at
\* the first such indicator in list order after skipping the indicators
\* whose query raised or returned nothing; it returns False only after it
\* has gone through the whole list.
C18_VerifyJoinStatus ==
    fpc.verify = "returned"
        => /\ vresult \in BOOLEAN
           /\ vresult <=> (\E i \in DOMAIN indicators : indicators[i] >= 1)
           /\ vresult => /\ indicators[vidx] >= 1
                         /\ \A j \in 1 .. (vidx - 1) : indicators[j] < 1
           /\ ~vresult => vidx = Len(join_indicators)

\* The first query raised, the second returned nothing, the third matched.
C18_Witness ==
    /\ fpc.verify = "returned"
    /\ indicators = <<-1, 0, 1>>
    /\ vidx = Len(join_indicators)
    /\ vresult

MuteSets == {"mic", "cam"}

\* C19: a mute control is clicked successfully at most once: once a click on
\* a candidate of a list has succeeded, no candidate of that list is waited
\* for or clicked again; a click that fails on a resolved candidate leaves
\* the control unclicked and moves on to the next candidate of the list.
C19_MuteClickedAtMostOnce ==
    [][\A s \in MuteSets :
         /\ found[s] # 0
              => /\ found'[s] = found[s]
                 /\ tried'[s] = tried[s]
                 /\ pc' \notin {WaitPc(s), ClickPc(s)}
         /\ (pc = ClickPc(s) /\ found'[s] # 0)
              => /\ found'[s] = idx
                 /\ pc' \notin {WaitPc(s), ClickPc(s)}
         /\ (pc = ClickPc(s) /\ found'[s] = 0 /\ idx < Len(Selectors(s)))
              => /\ pc' = WaitPc(s)
                 /\ idx' = idx + 1]_vars

\* The click on the first microphone candidate failed after it had been
\* resolved, and the second candidate was clicked.
C19_Witness ==
    /\ pc = "cam_wait"
    /\ found["mic"] = 2
    /\ tried["mic"] = 2
    /\ elapsed["mic"] = 0
    /\ errors["mic"] = 0

\* C20: main's finally block leaves the pending exception as it is, whether
\* driver.quit() succeeded or failed: a run with no pending exception ends
\* with status 0, a run with one ends with status 1 and that same exception.
C20_TeardownKeepsOutcome ==
    [][(pc = "finally")
          => (/\ exc' = exc
              /\ pc' = "done"
              /\ exitStatus' = (IF exc.kind = "none" THEN 0 ELSE 1))]_vars

\* A successful run whose driver.quit() failed.
C20_Witness ==
    /\ pc = "done"
    /\ "Failed to cleanup" \in log
    /\ "Transcription" \in log
    /\ exc = NoExc
    /\ exitStatus = 0

====
